---- MODULE Spec2Model ----
(***************************************************************************)
(* Model of the APOE4 / amyloid knowledge graph: extract_triples.py (the   *)
(* retrying triple extractor and its batch script), load_neo4j.py (label   *)
(* heuristic, MERGE upsert and the load script) and the Story Mode of      *)
(* app.py.  Strings are sequences of one-character strings so that strip,  *)
(* upper, replace, slicing and substring tests are computed.               *)
(***************************************************************************)
EXTENDS Integers, Sequences, FiniteSets, TLC

(* ------------------------------ bounds --------------------------------- *)
\* longest corpus file, in lines
MaxCorpus == 2
\* longest triple batch file, in entries
MaxBatch == 3
\* largest max_retries handed to extract_triples
MaxRetries == 3

(* --------------------------- program constants ------------------------- *)
\* extract_triples.py:89   if len(line) < 100
MinRecordLen == 100
\* load_neo4j.py:35        evidence[:250]
MaxEvidenceLen == 250

(* ------------------------------ strings -------------------------------- *)
LowerLetters ==
  << "a","b","c","d","e","f","g","h","i","j","k","l","m",
     "n","o","p","q","r","s","t","u","v","w","x","y","z" >>

UpperLetters ==
  << "A","B","C","D","E","F","G","H","I","J","K","L","M",
     "N","O","P","Q","R","S","T","U","V","W","X","Y","Z" >>

\* str.lower() on one character
LowerChar(c) ==
  IF \E k \in 1..26 : UpperLetters[k] = c
  THEN LowerLetters[CHOOSE k \in 1..26 : UpperLetters[k] = c]
  ELSE c

\* str.upper() on one character
UpperChar(c) ==
  IF \E k \in 1..26 : LowerLetters[k] = c
  THEN UpperLetters[CHOOSE k \in 1..26 : LowerLetters[k] = c]
  ELSE c

Lower(s) == [k \in 1..Len(s) |-> LowerChar(s[k])]

Upper(s) == [k \in 1..Len(s) |-> UpperChar(s[k])]

\* str.replace(old, new) for a one-character old and new
ReplaceChar(s, old, new) == [k \in 1..Len(s) |-> IF s[k] = old THEN new ELSE s[k]]

\* Python's  sub in s
Contains(s, sub) ==
  \E k \in 0..(Len(s) - Len(sub)) : SubSeq(s, k + 1, k + Len(sub)) = sub

\* Python's  s[:n]  for n >= 0
Take(s, n) == SubSeq(s, 1, IF Len(s) < n THEN Len(s) ELSE n)

\* str.strip(): drop leading and trailing blanks
Strip(s) ==
  LET keep == {k \in 1..Len(s) : s[k] # " "}
  IN  IF keep = {} THEN << >>
      ELSE SubSeq(s, CHOOSE k \in keep : \A m \in keep : k <= m,
                     CHOOSE k \in keep : \A m \in keep : m <= k)

(* --------------------------- guess_label ------------------------------- *)
GeneTerms ==
  { <<"a","p","o","e">>, <<"p","s","e","n">>, <<"g","e","n","e">> }

PathologyTerms ==
  { <<"a","m","y","l","o","i","d">>, <<"p","l","a","q","u","e">>,
    <<"c","l","e","a","r","a","n","c","e">>,
    <<"p","a","t","h","o","l","o","g","y">>, <<"t","a","u">>,
    <<"n","e","u","r","o","i","n","f","l","a","m","m","a","t","i","o","n">> }

DiseaseTerms ==
  { <<"a","l","z","h","e","i","m","e","r">>, <<"d","e","m","e","n","t","i","a">> }

SymptomTerms ==
  { <<"m","e","m","o","r","y">>, <<"c","o","g","n","i","t","i","v","e">>,
    <<"d","e","c","l","i","n","e">> }

\* fault: the Pathology terms are tested before the Gene terms
guess_label_PathologyFirst(name) ==
  LET lowers == Lower(name)
  IN  IF \E term \in PathologyTerms : Contains(lowers, term) THEN "Pathology"
      ELSE IF \E term \in GeneTerms : Contains(lowers, term) THEN "Gene"
      ELSE IF \E term \in DiseaseTerms : Contains(lowers, term) THEN "Disease"
      ELSE IF \E term \in SymptomTerms : Contains(lowers, term) THEN "Symptom"
      ELSE "Other"

guess_label(name) ==
  LET lowers == Lower(name)
  IN  IF \E term \in GeneTerms : Contains(lowers, term) THEN "Gene"
      ELSE IF \E term \in PathologyTerms : Contains(lowers, term) THEN "Pathology"
      ELSE IF \E term \in DiseaseTerms : Contains(lowers, term) THEN "Disease"
      ELSE IF \E term \in SymptomTerms : Contains(lowers, term) THEN "Symptom"
      ELSE "Other"

(* ----------------------------- graph store ----------------------------- *)
\* A store is [nodes, edges]: nodes a sequence of [label, name], edges a
\* sequence of [src, dst, type, evidence] with src/dst indices into nodes.
\* Sequences (not sets) so that a duplicate node or edge is representable.
EmptyStore == [nodes |-> << >>, edges |-> << >>]

\* fault: the clear is left out
DetachDeleteAll_Skipped(st) == st

\* MATCH (n) DETACH DELETE n
DetachDeleteAll(st) == EmptyStore

NodeMatches(ns, label, name) ==
  {k \in 1..Len(ns) : ns[k].label = label /\ ns[k].name = name}

\* MERGE (a:label {name: name}) : create the node only when nothing matches
MergeNode(ns, label, name) ==
  IF NodeMatches(ns, label, name) = {}
  THEN Append(ns, [label |-> label, name |-> name])
  ELSE ns

\* fault: CREATE where the query says MERGE
MergeRel_Create(es, a, r, b) ==
  Append(es, [src |-> a, dst |-> b, type |-> r, evidence |-> << >>])

\* MERGE (a)-[rel:RELATION {type: r}]->(b) for one bound pair (a, b)
MergeRel(es, a, r, b) ==
  IF \E k \in 1..Len(es) : es[k].src = a /\ es[k].dst = b /\ es[k].type = r
  THEN es
  ELSE Append(es, [src |-> a, dst |-> b, type |-> r, evidence |-> << >>])

\* the MERGE of the relationship runs once per bound row (a, b)
RECURSIVE MergeRelRows(_, _, _)
MergeRelRows(es, rows, r) ==
  IF rows = {} THEN es
  ELSE LET row == CHOOSE p \in rows :
                    \A q \in rows : p[1] < q[1] \/ (p[1] = q[1] /\ p[2] <= q[2])
       IN  MergeRelRows(MergeRel(es, row[1], r, row[2]), rows \ {row}, r)

\* fault: ON CREATE SET, the evidence is written only where none is set yet
SetEvidence_OnCreate(es, rows, r, ev) ==
  [k \in 1..Len(es) |->
     IF <<es[k].src, es[k].dst>> \in rows /\ es[k].type = r /\ es[k].evidence = << >>
     THEN [es[k] EXCEPT !.evidence = ev]
     ELSE es[k]]

\* SET rel.evidence = ev  on every relationship bound by the MERGE
SetEvidence(es, rows, r, ev) ==
  [k \in 1..Len(es) |->
     IF <<es[k].src, es[k].dst>> \in rows /\ es[k].type = r
     THEN [es[k] EXCEPT !.evidence = ev]
     ELSE es[k]]

\* fault: the slice is one character too long
Truncate_OneTooMany(evidence) == Take(evidence, MaxEvidenceLen + 1)

\* the evidence parameter handed to tx.run
Truncate(evidence) == Take(evidence, MaxEvidenceLen)

add_triple(st, s, s_label, r, o, o_label, evidence) ==
  LET n1   == MergeNode(st.nodes, s_label, s)
      n2   == MergeNode(n1, o_label, o)
      rows == NodeMatches(n2, s_label, s) \X NodeMatches(n2, o_label, o)
      e1   == MergeRelRows(st.edges, rows, r)
  IN  [nodes |-> n2, edges |-> SetEvidence(e1, rows, r, Truncate(evidence))]

(* ------------------------- files and JSON values ----------------------- *)
\* A file is [exists, data]; data is the line sequence (corpus) or the parsed
\* JSON array (triple batch).
AbsentFile == [exists |-> FALSE, data |-> << >>]

File(d) == [exists |-> TRUE, data |-> d]

\* A JSON object of the batch is a function from the keys it has to strings, so
\* a missing key is an absent key.  dict.get(key) yields None for it.
None == [isNone |-> TRUE, val |-> << >>]

Get(t, key) == IF key \in DOMAIN t THEN [isNone |-> FALSE, val |-> t[key]] ELSE None

\* Python truthiness of None / str
Truthy(v) == ~v.isNone /\ Len(v.val) > 0

\* A parsed JSON document: an array of objects, or a number
JArray(items) == [kind |-> "array", items |-> items, num |-> 0]

JNumber(n) == [kind |-> "number", items |-> << >>, num |-> n]

\* Python truthiness of a parsed JSON document
TruthyJson(v) == IF v.kind = "array" THEN Len(v.items) > 0 ELSE v.num # 0

(* ------------------- the text-completion service reply ----------------- *)
\* The reply text is a sequence of tokens: the opening markdown fence (three
\* backticks and the word json), the bare fence (three backticks), prose, or
\* the text of one JSON document.
FenceJson == [t |-> "fence-json", doc |-> JNumber(0)]

Fence == [t |-> "fence", doc |-> JNumber(0)]

Prose == [t |-> "prose", doc |-> JNumber(0)]

JsonText(doc) == [t |-> "json", doc |-> doc]

FirstAt(toks, tok) ==
  IF \E k \in 1..Len(toks) : toks[k] = tok
  THEN CHOOSE k \in 1..Len(toks) : toks[k] = tok /\ \A m \in 1..(k - 1) : toks[m] # tok
  ELSE 0

\* str.split(tok)[0]
BeforeFirst(toks, tok) ==
  IF FirstAt(toks, tok) = 0 THEN toks ELSE SubSeq(toks, 1, FirstAt(toks, tok) - 1)

\* str.split(tok)[1], for a text that contains tok
AfterFirst(toks, tok) ==
  BeforeFirst(SubSeq(toks, FirstAt(toks, tok) + 1, Len(toks)), tok)

\* if FENCEJSON in content: content = content.split(FENCEJSON)[1].split(FENCE)[0]
\* The text after the opening fence holds no further opening fence, so the
\* first fence in it is a bare one.
CleanContent(content) ==
  IF FirstAt(content, FenceJson) # 0
  THEN BeforeFirst(AfterFirst(content, FenceJson), Fence)
  ELSE content

\* json.loads: the text must be exactly one JSON document
json_loads(content) ==
  IF Len(content) = 1 /\ content[1].t = "json"
  THEN [ok |-> TRUE, doc |-> content[1].doc]
  ELSE [ok |-> FALSE, doc |-> JNumber(0)]

\* One client.chat.completions.create call: it raises, or answers with a
\* message whose content is None or a text.
Raised == [outcome |-> "raise", content |-> << >>]

NoContent == [outcome |-> "none", content |-> << >>]

Reply(content) == [outcome |-> "text", content |-> content]

\* lines 53-72: what one attempt of extract_triples ends with
AttemptResult(resp) ==
  IF resp.outcome = "text"
  THEN LET parsed == json_loads(CleanContent(resp.content))
       IN  IF parsed.ok THEN [how |-> "return", doc |-> parsed.doc]
           ELSE [how |-> "JSONDecodeError", doc |-> JNumber(0)]
  ELSE [how |-> "Exception", doc |-> JNumber(0)]

\* fault: the retry loop runs once more than max_retries
HasAttempt_OneTooMany(attempt, maxRetries) == attempt <= maxRetries

\* for attempt in range(max_retries)
HasAttempt(attempt, maxRetries) == attempt < maxRetries

\* fault: the length test is off by one
TooShort_OffByOne(line) == Len(line) < MinRecordLen - 1

\* if len(line) < 100: continue
TooShort(line) == Len(line) < MinRecordLen

\* abstracts = [line.strip() for line in f if line.strip()]
RECURSIVE ReadAbstracts(_)
ReadAbstracts(lines) ==
  IF lines = << >> THEN << >>
  ELSE IF Strip(Head(lines)) = << >> THEN ReadAbstracts(Tail(lines))
  ELSE << Strip(Head(lines)) >> \o ReadAbstracts(Tail(lines))

(* ------------------------------ loader helpers ------------------------- *)
\* fault: the object is not tested
IsMalformed_ObjectUntested(subj, rel, obj) == ~(Truthy(subj) /\ Truthy(rel))

\* if not (subj and rel and obj)
IsMalformed(subj, rel, obj) == ~(Truthy(subj) /\ Truthy(rel) /\ Truthy(obj))

\* rel.upper().replace(" ", "_").replace("-", "_")
Sanitize(rel) == ReplaceChar(ReplaceChar(Upper(rel), " ", "_"), "-", "_")

\* "No evidence text available."
NoEvidenceText ==
  << "N","o"," ","e","v","i","d","e","n","c","e"," ","t","e","x","t"," ",
     "a","v","a","i","l","a","b","l","e","." >>

\* corpus_lines[idx % len(corpus_lines)] if corpus_lines else "No evidence ..."
\* (idx counts from 0, sequences from 1)
EvidenceFor(lines, idx) ==
  IF lines # << >> THEN lines[(idx % Len(lines)) + 1] ELSE NoEvidenceText

(* ------------------------------- inputs -------------------------------- *)
SeqsUpTo(S, n) == UNION {[1..k -> S] : k \in 0..n}

\* a text of n letters, a b c ... z a b ...
Body(n) == [k \in 1..n |-> LowerLetters[((k - 1) % 26) + 1]]

BlankLine == << >>

\* 100 characters on disk, 99 once stripped
PaddedLine == << " " >> \o Body(MinRecordLen - 1)

ShortestLongLine == Body(MinRecordLen)

OverlongLine == Body(MaxEvidenceLen + 1)

CorpusLineChoices == {BlankLine, PaddedLine, ShortestLongLine, OverlongLine}

Corpora == SeqsUpTo(CorpusLineChoices, MaxCorpus)

APOE4 == << "A","P","O","E","4" >>

Tau == << "t","a","u" >>

IsASpaced == << "i","s"," ","a" >>

IsAHyphen == << "I","s","-","a" >>

TripleChoices ==
  { [subject |-> APOE4, relation |-> IsASpaced, object |-> Tau],
    [subject |-> APOE4, relation |-> IsAHyphen, object |-> Tau],
    [subject |-> Tau, relation |-> IsASpaced, object |-> Tau],
    [subject |-> APOE4, relation |-> IsASpaced],
    [subject |-> << >>, relation |-> IsASpaced, object |-> Tau] }

Batches == SeqsUpTo(TripleChoices, MaxBatch)

\* what the service may answer with on one call
DocChoices ==
  { JArray(<< >>),
    JArray(<< [subject |-> APOE4, relation |-> IsASpaced, object |-> Tau],
              [subject |-> APOE4, relation |-> IsASpaced] >>),
    JNumber(7) }

Responses ==
  {Raised, NoContent, Reply(<< Prose >>)}
    \cup {Reply(<< JsonText(d) >>) : d \in DocChoices}
    \cup {Reply(<< Prose, FenceJson, JsonText(d), Fence, Prose >>) : d \in DocChoices}
    \cup {Reply(<< Fence, JsonText(d), Fence >>) : d \in DocChoices}

\* a store left behind by an earlier run, with a duplicated node
StaleStore ==
  [nodes |-> << [label |-> "Other", name |-> << "o","l","d" >>],
                [label |-> "Gene", name |-> APOE4],
                [label |-> "Gene", name |-> APOE4] >>,
   edges |-> << [src |-> 2, dst |-> 1, type |-> << "W","A","S" >>,
                 evidence |-> << "o","l","d" >>] >>]

Stores == {EmptyStore, StaleStore}

\* def extract_triples(text, max_retries=3)
DefaultMaxRetries == 3

\* entity names handed to guess_label: one word, or two joined by a blank
Words ==
  { APOE4, Tau,
    << "a","l","l","e","l","e" >>,
    << "a","m","y","l","o","i","d" >>,
    << "P","l","a","q","u","e" >>,
    << "A","l","z","h","e","i","m","e","r","'","s" >>,
    << "d","i","s","e","a","s","e" >>,
    << "D","E","M","E","N","T","I","A" >>,
    << "c","o","g","n","i","t","i","v","e" >>,
    << "d","e","c","l","i","n","e" >>,
    << "M","e","m","o","r","y" >>,
    << "G","e","n","e","r","i","c" >>,
    << "p","s","e","n","1" >>,
    << "x","y","z","1","2","3" >>,
    << "a","p","o" >>,
    << "e","4" >> }

NameChoices == Words \cup {v \o << " " >> \o w : v, w \in Words} \cup {<< >>}

\* app.py lines 121-125: the titles of the three stories
stories ==
  << "The Core Genetic Risk", "Cellular Disruption", "Path to Decline" >>

\* the buttons of the page; "other" stands for every button but Prev and Next
Buttons == {"prev", "next", "other"}

(* ------------------------------- state --------------------------------- *)
VARIABLES
  stage,         \* which script runs: "extract" or "load"
  corpusFile,    \* pubmed_corpus.txt
  batchFile,     \* extracted_triples.json
  store,         \* the Neo4j graph
  pc,            \* position in the running script
  exitStatus,    \* the process exit status, meaningful once pc = "exited"
  log,           \* what the run did so far: service calls, sleeps, prints, writes
  max_retries,   \* extract_triples: parameter
  abstracts,     \* extract_triples.py: abstracts
  rec,           \* extract_triples.py: number of abstracts the for loop is past
  attempt,       \* extract_triples: attempt
  extracted,     \* extract_triples.py: triples (what extract_triples returned)
  all_triples,   \* extract_triples.py: all_triples
  triples,       \* load_neo4j.py: triples
  corpus_lines,  \* load_neo4j.py: corpus_lines
  idx,           \* load_neo4j.py: idx
  name,          \* guess_label: name
  label,         \* guess_label: the value returned
  story_step,    \* app.py: st.session_state.story_step, -1 while the key is unset
  pressed        \* app.py: the button that is True in the running script run

vars == << stage, corpusFile, batchFile, store, pc, exitStatus, log, max_retries,
           abstracts, rec, attempt, extracted, all_triples, triples,
           corpus_lines, idx, name, label, story_step, pressed >>

extractVars == << max_retries, abstracts, rec, attempt, extracted, all_triples >>

loadVars == << triples, corpus_lines, idx >>

labelVars == << name, label >>

appVars == << story_step, pressed >>

Ev(e, at) == [ev |-> e, at |-> at]

Init ==
  /\ stage \in {"extract", "load", "label", "app"}
  /\ corpusFile \in IF stage \in {"extract", "load"}
                    THEN {AbsentFile} \cup {File(c) : c \in Corpora}
                    ELSE {AbsentFile}
  /\ batchFile \in IF stage = "load"
                   THEN {AbsentFile} \cup {File(b) : b \in Batches}
                   ELSE IF stage = "extract"
                   THEN {AbsentFile, File(<< [subject |-> Tau, relation |-> IsASpaced,
                                              object |-> Tau] >>)}
                   ELSE {AbsentFile}
  /\ store \in IF stage \in {"extract", "load"} THEN Stores ELSE {EmptyStore}
  /\ pc = "open"
  /\ exitStatus = 0
  /\ log = << >>
  /\ max_retries \in IF stage = "extract" THEN 1..MaxRetries ELSE {DefaultMaxRetries}
  /\ abstracts = << >>
  /\ rec = 0
  /\ attempt = 0
  /\ extracted = JArray(<< >>)
  /\ all_triples = << >>
  /\ triples = << >>
  /\ corpus_lines = << >>
  /\ idx = 0
  /\ name \in IF stage = "label" THEN NameChoices ELSE {<< >>}
  /\ label = "unset"
  /\ story_step = -1
  /\ pressed = "none"

(* ------------------------- extract_triples.py -------------------------- *)
\* lines 84-85: the corpus opens and is read
E_ReadCorpus ==
  /\ stage = "extract" /\ pc = "open"
  /\ corpusFile.exists
  /\ abstracts' = ReadAbstracts(corpusFile.data)
  /\ rec' = 0
  /\ pc' = "for"
  /\ UNCHANGED << stage, corpusFile, batchFile, store, exitStatus, log, max_retries,
                  attempt, extracted, all_triples, loadVars, labelVars, appVars >>

\* lines 100-101: open raises FileNotFoundError, which is caught and printed
E_CorpusNotFound ==
  /\ stage = "extract" /\ pc = "open"
  /\ ~corpusFile.exists
  /\ log' = Append(log, Ev("error", 0))
  /\ pc' = "dump"
  /\ UNCHANGED << stage, corpusFile, batchFile, store, exitStatus, extractVars, loadVars, labelVars, appVars >>

\* lines 89-90: a short record is passed over
E_SkipShort ==
  /\ stage = "extract" /\ pc = "for"
  /\ rec < Len(abstracts)
  /\ TooShort(abstracts[rec + 1])
  /\ rec' = rec + 1
  /\ UNCHANGED << stage, corpusFile, batchFile, store, pc, exitStatus, log, max_retries,
                  abstracts, attempt, extracted, all_triples, loadVars, labelVars, appVars >>

\* line 92: extract_triples(line) is entered
E_EnterExtract ==
  /\ stage = "extract" /\ pc = "for"
  /\ rec < Len(abstracts)
  /\ ~TooShort(abstracts[rec + 1])
  /\ attempt' = 0
  /\ pc' = "try"
  /\ UNCHANGED << stage, corpusFile, batchFile, store, exitStatus, log, max_retries,
                  abstracts, rec, extracted, all_triples, loadVars, labelVars, appVars >>

\* lines 53-64: one attempt whose reply parses; extract_triples returns it
E_AttemptReturns ==
  /\ stage = "extract" /\ pc = "try"
  /\ HasAttempt(attempt, max_retries)
  /\ \E resp \in Responses :
       /\ AttemptResult(resp).how = "return"
       /\ extracted' = AttemptResult(resp).doc
  /\ log' = Append(log, Ev("call", rec + 1))
  /\ pc' = "ret"
  /\ UNCHANGED << stage, corpusFile, batchFile, store, exitStatus, max_retries,
                  abstracts, rec, attempt, all_triples, loadVars, labelVars, appVars >>

\* lines 53-72: one attempt that fails; the handler prints and sleeps 5 s
E_AttemptFails ==
  /\ stage = "extract" /\ pc = "try"
  /\ HasAttempt(attempt, max_retries)
  /\ \E resp \in Responses : AttemptResult(resp).how # "return"
  /\ log' = log \o << Ev("call", rec + 1), Ev("backoff", rec + 1) >>
  /\ attempt' = attempt + 1
  /\ UNCHANGED << stage, corpusFile, batchFile, store, pc, exitStatus, max_retries,
                  abstracts, rec, extracted, all_triples, loadVars, labelVars, appVars >>

\* lines 74-75: the attempts are used up; extract_triples returns []
E_Exhausted ==
  /\ stage = "extract" /\ pc = "try"
  /\ ~HasAttempt(attempt, max_retries)
  /\ extracted' = JArray(<< >>)
  /\ log' = Append(log, Ev("gave-up", rec + 1))
  /\ pc' = "ret"
  /\ UNCHANGED << stage, corpusFile, batchFile, store, exitStatus, max_retries,
                  abstracts, rec, attempt, all_triples, loadVars, labelVars, appVars >>

\* fault: the delay after the record is left out
RecordPause_Dropped(lg, r) == lg

\* line 98: time.sleep(1) after the record
RecordPause(lg, r) == Append(lg, Ev("pause", r))

\* lines 94-98: the result is accumulated, then the polite delay
E_Accumulate ==
  /\ stage = "extract" /\ pc = "ret"
  /\ ~TruthyJson(extracted) \/ extracted.kind = "array"
  /\ all_triples' = IF TruthyJson(extracted) THEN all_triples \o extracted.items
                    ELSE all_triples
  /\ log' = RecordPause(log, rec + 1)
  /\ rec' = rec + 1
  /\ pc' = "for"
  /\ UNCHANGED << stage, corpusFile, batchFile, store, exitStatus, max_retries,
                  abstracts, attempt, extracted, loadVars, labelVars, appVars >>

\* line 95: list.extend of a truthy non-iterable raises TypeError, which the
\* script does not catch: traceback, exit status 1, nothing written
E_ExtendRaises ==
  /\ stage = "extract" /\ pc = "ret"
  /\ TruthyJson(extracted) /\ extracted.kind # "array"
  /\ pc' = "exited"
  /\ exitStatus' = 1
  /\ UNCHANGED << stage, corpusFile, batchFile, store, log, extractVars, loadVars, labelVars, appVars >>

\* line 87: the for loop is over
E_LoopEnds ==
  /\ stage = "extract" /\ pc = "for"
  /\ rec = Len(abstracts)
  /\ pc' = "dump"
  /\ UNCHANGED << stage, corpusFile, batchFile, store, exitStatus, log, extractVars,
                  loadVars, labelVars, appVars >>

\* lines 103-108: the batch file is written and the script ends
E_Dump ==
  /\ stage = "extract" /\ pc = "dump"
  /\ batchFile' = File(all_triples)
  /\ log' = Append(log, Ev("dump", Len(all_triples)))
  /\ pc' = "exited"
  /\ exitStatus' = 0
  /\ UNCHANGED << stage, corpusFile, store, extractVars, loadVars, labelVars, appVars >>

(* ---------------------------- load_neo4j.py ---------------------------- *)
\* lines 39-40: both files open and are read
L_ReadInputs ==
  /\ stage = "load" /\ pc = "open"
  /\ batchFile.exists /\ corpusFile.exists
  /\ triples' = batchFile.data
  /\ corpus_lines' = corpusFile.data
  /\ pc' = "clear"
  /\ UNCHANGED << stage, corpusFile, batchFile, store, exitStatus, log, extractVars, labelVars, appVars, idx >>

\* lines 41-43: FileNotFoundError is printed, then exit() with no argument
L_FileNotFound ==
  /\ stage = "load" /\ pc = "open"
  /\ ~batchFile.exists \/ ~corpusFile.exists
  /\ log' = Append(log, Ev("error", 0))
  /\ pc' = "exited"
  /\ exitStatus' = 0
  /\ UNCHANGED << stage, corpusFile, batchFile, store, extractVars, labelVars, appVars, loadVars >>

\* lines 45-49: the graph is cleared, then "Loading n triples" is printed
L_Clear ==
  /\ stage = "load" /\ pc = "clear"
  /\ store' = DetachDeleteAll(store)
  /\ log' = log \o << Ev("clear", 0), Ev("loading", Len(triples)) >>
  /\ idx' = 0
  /\ pc' = "for"
  /\ UNCHANGED << stage, corpusFile, batchFile, exitStatus, extractVars, labelVars, appVars, triples,
                  corpus_lines >>

\* lines 53-60: a triple without subject, relation or object is warned about
L_SkipMalformed ==
  /\ stage = "load" /\ pc = "for"
  /\ idx < Len(triples)
  /\ LET t == triples[idx + 1]
     IN  IsMalformed(Get(t, "subject"), Get(t, "relation"), Get(t, "object"))
  /\ log' = Append(log, Ev("warning", idx))
  /\ idx' = idx + 1
  /\ UNCHANGED << stage, corpusFile, batchFile, store, pc, exitStatus, extractVars, labelVars, appVars,
                  triples, corpus_lines >>

\* lines 62-74: the triple is upserted in one write transaction
L_Upsert ==
  /\ stage = "load" /\ pc = "for"
  /\ idx < Len(triples)
  /\ LET t    == triples[idx + 1]
         subj == Get(t, "subject")
         rel  == Get(t, "relation")
         obj  == Get(t, "object")
     IN  /\ ~IsMalformed(subj, rel, obj)
         /\ store' = add_triple(store, subj.val, guess_label(subj.val),
                                Sanitize(rel.val), obj.val, guess_label(obj.val),
                                EvidenceFor(corpus_lines, idx))
  /\ log' = Append(log, Ev("write", idx))
  /\ idx' = idx + 1
  /\ UNCHANGED << stage, corpusFile, batchFile, pc, exitStatus, extractVars, labelVars, appVars,
                  triples, corpus_lines >>

\* lines 76-77: "Load complete." and the script ends
L_Complete ==
  /\ stage = "load" /\ pc = "for"
  /\ idx = Len(triples)
  /\ log' = Append(log, Ev("complete", 0))
  /\ pc' = "exited"
  /\ exitStatus' = 0
  /\ UNCHANGED << stage, corpusFile, batchFile, store, extractVars, labelVars, appVars, loadVars >>

(* ------------------------ guess_label on its own ---------------------- *)
\* lines 15-25: guess_label(name) is called and returns
G_GuessLabel ==
  /\ stage = "label" /\ pc = "open"
  /\ label' = guess_label(name)
  /\ pc' = "exited"
  /\ UNCHANGED << stage, corpusFile, batchFile, store, exitStatus, log, extractVars,
                  loadVars, name, appVars >>

(* -------------------------------- app.py ------------------------------ *)
\* A script run starts: the first of a session, one a widget interaction
\* triggers (one button is True in it), or the one st.rerun() asked for (no
\* button is True).  Lines 108-112 set story_step to 0 when the session is new.
\* The run reaches Story Mode, or ends at st.stop() when Neo4j is unreachable.
A_StartRun ==
  /\ stage = "app" /\ pc \in {"open", "idle", "rerun"}
  /\ pressed' \in IF pc = "idle" THEN Buttons \cup {"none"} ELSE {"none"}
  /\ story_step' = IF pc = "open" THEN 0 ELSE story_step
  /\ pc' \in {"story", "idle"}
  /\ UNCHANGED << stage, corpusFile, batchFile, store, exitStatus, log, extractVars,
                  loadVars, labelVars >>

\* stories[k] of Python, k counted from 0
InRange(k) == 0 <= k /\ k < Len(stories)

\* fault: Prev is not held back at step 0
PrevMoves_Unguarded(step) == TRUE

\* line 194: ... and step > 0
PrevMoves(step) == step > 0

\* fault: Next is held back one step too late
NextMoves_OffByOne(step) == step < Len(stories)

\* line 197: ... and step < len(stories) - 1
NextMoves(step) == step < Len(stories) - 1

\* lines 190-199: Story Mode.  stories[step] is read; Prev or Next moves the
\* step and asks for a rerun; otherwise the run goes on.  An index out of
\* range raises IndexError, which ends the run.
A_StoryMode ==
  /\ stage = "app" /\ pc = "story"
  /\ IF ~InRange(story_step)
     THEN pc' = "idle" /\ UNCHANGED story_step
     ELSE IF pressed = "prev" /\ PrevMoves(story_step)
     THEN story_step' = story_step - 1 /\ pc' = "rerun"
     ELSE IF pressed = "next" /\ NextMoves(story_step)
     THEN story_step' = story_step + 1 /\ pc' = "rerun"
     ELSE pc' = "graph" /\ UNCHANGED story_step
  /\ UNCHANGED << stage, corpusFile, batchFile, store, exitStatus, log, extractVars,
                  loadVars, labelVars, pressed >>

\* lines 200-299: the rest of the page; line 263 reads stories[story_step]
\* when there are records to draw.  The run ends.
A_RestOfPage ==
  /\ stage = "app" /\ pc = "graph"
  /\ pc' = "idle"
  /\ UNCHANGED << stage, corpusFile, batchFile, store, exitStatus, log, extractVars,
                  loadVars, labelVars, appVars >>

Next ==
  \/ E_ReadCorpus
  \/ E_CorpusNotFound
  \/ E_SkipShort
  \/ E_EnterExtract
  \/ E_AttemptReturns
  \/ E_AttemptFails
  \/ E_Exhausted
  \/ E_Accumulate
  \/ E_ExtendRaises
  \/ E_LoopEnds
  \/ E_Dump
  \/ L_ReadInputs
  \/ L_FileNotFound
  \/ L_Clear
  \/ L_SkipMalformed
  \/ L_Upsert
  \/ L_Complete
  \/ G_GuessLabel
  \/ A_StartRun
  \/ A_StoryMode
  \/ A_RestOfPage

Spec == Init /\ [][Next]_vars

(* ------------------------- vocabulary of the claims -------------------- *)
\* how often the run logged event e at position at
CountEv(e, at) == Cardinality({k \in DOMAIN log : log[k] = Ev(e, at)})

\* how often the run logged event e at all
CountAll(e) == Cardinality({k \in DOMAIN log : log[k].ev = e})

Fields == {"subject", "relation", "object"}

\* a batch entry that has a non-empty subject, relation and object
WellFormed(t) == \A f \in Fields : f \in DOMAIN t /\ t[f] # << >>

\* positions (from 0) of the batch the load loop is past
Seen == 0..(idx - 1)

SeenWellFormed == {p \in Seen : WellFormed(triples[p + 1])}

SeenMalformed == {p \in Seen : ~WellFormed(triples[p + 1])}

\* the load script is in or past its loop (the inputs were found)
Loading == stage = "load" /\ pc \in {"for", "exited"} /\ CountAll("error") = 0

LoadCompleted == stage = "load" /\ pc = "exited" /\ CountAll("complete") = 1

InputMissing ==
  \/ stage = "extract" /\ ~corpusFile.exists
  \/ stage = "load" /\ (~batchFile.exists \/ ~corpusFile.exists)

\* the store holds an edge subject -[canonical relation]-> object
HasEdge(t) ==
  \E k \in DOMAIN store.edges :
     /\ store.nodes[store.edges[k].src].name = t.subject
     /\ store.nodes[store.edges[k].dst].name = t.object
     /\ store.edges[k].type = Sanitize(t.relation)

(* -------------------------------- C1 ----------------------------------- *)
\* C1: when every service call made for a record has failed, extract_triples
\* has made at most max_retries calls; when it returns in that case it has made
\* exactly max_retries calls and returns the empty sequence; and the script
\* never ends on an exception while all calls of the current record failed.
C1_RetryExhaustion ==
  stage = "extract" =>
    LET calls == CountEv("call", rec + 1)
        fails == CountEv("backoff", rec + 1)
    IN  /\ pc = "try" /\ calls = fails => calls <= max_retries
        /\ pc = "ret" /\ calls = fails =>
             calls = max_retries /\ extracted = JArray(<< >>)
        /\ pc = "exited" /\ exitStatus # 0 => calls > fails

\* a record whose three calls all failed has just been given up on
C1_Witness ==
  /\ stage = "extract" /\ pc = "ret" /\ max_retries = 3
  /\ CountEv("call", rec + 1) = 3 /\ CountEv("backoff", rec + 1) = 3
  /\ extracted = JArray(<< >>)

(* -------------------------------- C2 ----------------------------------- *)
\* C2: a stage whose required input file is absent ends with a non-zero exit
\* status.
C2_NonZeroExitOnMissingInput ==
  pc = "exited" /\ InputMissing => exitStatus # 0

(* -------------------------------- C3 ----------------------------------- *)
\* C3: a stage whose required input file is absent never calls the service,
\* never creates or overwrites the batch file and never touches the store.
C3_NoPartialProcessing ==
  [][InputMissing =>
       /\ batchFile' = batchFile
       /\ store' = store
       /\ \A k \in DOMAIN log' : log'[k].ev # "call"]_vars

(* -------------------------------- C4 ----------------------------------- *)
\* C4: in a load run every malformed entry passed so far got exactly one
\* warning naming its position and no store write, every well-formed entry
\* passed so far got exactly one upsert and its edge is in the store, the
\* number of warnings is the number of malformed entries passed, no node stems
\* from a malformed entry, and the run ends normally past the whole batch.
C4_MalformedSkipped ==
  Loading /\ CountAll("clear") = 1 =>
    /\ \A p \in SeenMalformed : CountEv("warning", p) = 1 /\ CountEv("write", p) = 0
    /\ \A p \in SeenWellFormed :
         CountEv("write", p) = 1 /\ CountEv("warning", p) = 0 /\ HasEdge(triples[p + 1])
    /\ CountAll("warning") = Cardinality(SeenMalformed)
    /\ CountAll("write") = Cardinality(SeenWellFormed)
    /\ \A k \in DOMAIN store.nodes :
         \E p \in SeenWellFormed :
            store.nodes[k].name \in {triples[p + 1].subject, triples[p + 1].object}
    /\ pc = "exited" => exitStatus = 0 /\ idx = Len(triples) /\ LoadCompleted

\* a completed load of a batch: well-formed, malformed, well-formed
C4_Witness ==
  /\ LoadCompleted /\ Len(triples) = 3
  /\ WellFormed(triples[1]) /\ ~WellFormed(triples[2]) /\ WellFormed(triples[3])
  /\ CountAll("warning") = 1 /\ CountAll("write") = 2

(* -------------------------------- C5 ----------------------------------- *)
\* C5: after any sequence of upserts into the cleared store there is at most
\* one node per entity name and at most one edge per (subject, canonical
\* relation type, object), so the node and edge counts are those of the set of
\* well-formed triples loaded, however often each was loaded.
C5_IdempotentUpsert ==
  Loading /\ CountAll("clear") = 1 =>
    /\ \A j, k \in DOMAIN store.nodes :
         store.nodes[j].name = store.nodes[k].name => j = k
    /\ \A j, k \in DOMAIN store.edges :
         /\ store.edges[j].src = store.edges[k].src
         /\ store.edges[j].dst = store.edges[k].dst
         /\ store.edges[j].type = store.edges[k].type
         => j = k
    /\ Len(store.nodes) =
         Cardinality(UNION {{triples[p + 1].subject, triples[p + 1].object} :
                              p \in SeenWellFormed})
    /\ Len(store.edges) =
         Cardinality({<< triples[p + 1].subject, Sanitize(triples[p + 1].relation),
                         triples[p + 1].object >> : p \in SeenWellFormed})

\* a completed load in which the same triple was loaded twice, once more under
\* another spelling of its relation, and left one edge
C5_Witness ==
  /\ LoadCompleted /\ Len(triples) = 3
  /\ WellFormed(triples[1]) /\ triples[3] = triples[1]
  /\ WellFormed(triples[2]) /\ triples[2].relation # triples[1].relation
  /\ Len(store.edges) = 1 /\ Len(store.nodes) = 2

(* -------------------------------- C6 ----------------------------------- *)
\* C6: a load run clears the graph exactly once and before its first upsert,
\* and once the run is complete the store holds exactly the nodes and edges of
\* the well-formed triples of the batch, whatever it held before.
C6_ClearOnceThenLoad ==
  stage = "load" =>
    /\ CountAll("clear") <= 1
    /\ \A k \in DOMAIN log :
         log[k].ev = "write" => \E j \in 1..(k - 1) : log[j].ev = "clear"
    /\ LoadCompleted =>
         /\ CountAll("clear") = 1
         /\ {store.nodes[k] : k \in DOMAIN store.nodes} =
              UNION {{[label |-> guess_label(triples[p + 1].subject),
                       name |-> triples[p + 1].subject],
                      [label |-> guess_label(triples[p + 1].object),
                       name |-> triples[p + 1].object]} : p \in SeenWellFormed}
         /\ {<< store.nodes[store.edges[k].src].name, store.edges[k].type,
                store.nodes[store.edges[k].dst].name >> : k \in DOMAIN store.edges} =
              {<< triples[p + 1].subject, Sanitize(triples[p + 1].relation),
                  triples[p + 1].object >> : p \in SeenWellFormed}

\* a completed load that cleared once and then upserted two different edges
C6_Witness ==
  /\ LoadCompleted /\ CountAll("clear") = 1 /\ CountAll("write") >= 2
  /\ Len(store.edges) = 2
  /\ \A k \in DOMAIN store.nodes : store.nodes[k].name \in {APOE4, Tau}

(* -------------------------------- C7 ----------------------------------- *)
\* C7: the count a completed load run reports is the number of triples it
\* loaded, the batch length less the malformed entries.
C7_ReportsLoadedCount ==
  LoadCompleted =>
    \E k \in DOMAIN log :
       /\ log[k].ev = "loading"
       /\ log[k].at = Len(triples) - Cardinality(SeenMalformed)

(* -------------------------------- C8 ----------------------------------- *)
\* C8: every service call, back-off and give-up of the extraction pass is for
\* a record of at least 100 characters.
C8_ShortRecordNoCall ==
  stage = "extract" =>
    \A k \in DOMAIN log :
       log[k].ev \in {"call", "backoff", "gave-up"} => Len(abstracts[log[k].at]) >= 100

\* a 99-character record was passed over and a later record was called for
C8_Witness ==
  /\ stage = "extract" /\ rec >= 1
  /\ \E r \in 1..rec :
       /\ Len(abstracts[r]) = 99
       /\ \E k \in DOMAIN log : log[k].ev = "call" /\ log[k].at > r

(* -------------------------------- C9 ----------------------------------- *)
\* C9: between two service calls for different records the log holds an
\* inter-record pause, and every record the loop is past that was long enough
\* to be processed has its pause.
C9_PauseBetweenRecords ==
  stage = "extract" =>
    /\ \A j, k \in DOMAIN log :
         /\ j < k
         /\ log[j].ev = "call" /\ log[k].ev = "call"
         /\ log[j].at # log[k].at
         => \E m \in (j + 1)..(k - 1) : log[m].ev = "pause"
    /\ \A r \in 1..rec : Len(abstracts[r]) >= 100 => CountEv("pause", r) = 1

\* a record was given up on and the next record has been called for
C9_Witness ==
  /\ stage = "extract"
  /\ \E j, k \in DOMAIN log :
       /\ j < k
       /\ log[j].ev = "gave-up" /\ log[k].ev = "call"
       /\ log[k].at = log[j].at + 1

(* -------------------------------- C10 ---------------------------------- *)
\* C10: every evidence value the loader wrote has at most 250 characters, and
\* the edge of the triple upserted last carries the corpus line derived for it
\* (or the placeholder), cut to its first 250 characters when it is longer.
C10_EvidenceTruncated ==
  Loading /\ CountAll("clear") = 1 =>
    /\ \A k \in DOMAIN store.edges : Len(store.edges[k].evidence) <= 250
    /\ idx > 0 /\ WellFormed(triples[idx]) =>
         LET t == triples[idx]
             derived == IF corpus_lines = << >> THEN NoEvidenceText
                        ELSE corpus_lines[((idx - 1) % Len(corpus_lines)) + 1]
         IN  \E k \in DOMAIN store.edges :
                /\ store.nodes[store.edges[k].src].name = t.subject
                /\ store.nodes[store.edges[k].dst].name = t.object
                /\ store.edges[k].type = Sanitize(t.relation)
                /\ store.edges[k].evidence =
                     IF Len(derived) > 250 THEN SubSeq(derived, 1, 250) ELSE derived

\* an edge carries the first 250 characters of a 251-character corpus line
C10_Witness ==
  /\ Loading /\ idx > 0 /\ WellFormed(triples[idx])
  /\ corpus_lines # << >>
  /\ Len(corpus_lines[((idx - 1) % Len(corpus_lines)) + 1]) = 251
  /\ \E k \in DOMAIN store.edges : Len(store.edges[k].evidence) = 250

(* -------------------------------- C11 ---------------------------------- *)
\* some keyword of the set occurs in the name, letter case aside
Occurs(terms) ==
  \E term \in terms :
     \E at \in 1..Len(name) :
        \A k \in 1..Len(term) :
           at + k - 1 <= Len(name) /\ LowerChar(name[at + k - 1]) = term[k]

\* C11: the label guess_label returns is the first of Gene, Pathology, Disease,
\* Symptom one of whose keywords occurs in the lower-cased name, and Other when
\* none occurs; it is always one of the five labels; and the names of the
\* documented examples get the documented labels.
C11_GuessLabelPriority ==
  stage = "label" /\ pc = "exited" =>
    /\ label \in {"Gene", "Pathology", "Disease", "Symptom", "Other"}
    /\ label = "Gene" <=> Occurs(GeneTerms)
    /\ label = "Pathology" <=> ~Occurs(GeneTerms) /\ Occurs(PathologyTerms)
    /\ label = "Disease" <=>
         ~Occurs(GeneTerms) /\ ~Occurs(PathologyTerms) /\ Occurs(DiseaseTerms)
    /\ label = "Symptom" <=>
         /\ ~Occurs(GeneTerms) /\ ~Occurs(PathologyTerms) /\ ~Occurs(DiseaseTerms)
         /\ Occurs(SymptomTerms)
    /\ label = "Other" <=>
         /\ ~Occurs(GeneTerms) /\ ~Occurs(PathologyTerms) /\ ~Occurs(DiseaseTerms)
         /\ ~Occurs(SymptomTerms)
    /\ name = << "A","P","O","E","4"," ","a","l","l","e","l","e" >> => label = "Gene"
    /\ name = << "a","m","y","l","o","i","d"," ","P","l","a","q","u","e" >>
         => label = "Pathology"
    /\ name = << "A","l","z","h","e","i","m","e","r","'","s"," ",
                 "d","i","s","e","a","s","e" >> => label = "Disease"
    /\ name = << "c","o","g","n","i","t","i","v","e"," ","d","e","c","l","i","n","e" >>
         => label = "Symptom"
    /\ name = << "x","y","z","1","2","3" >> => label = "Other"

\* a name with a Gene keyword and a Pathology keyword was labelled Gene
C11_Witness ==
  /\ stage = "label" /\ pc = "exited"
  /\ name = << "A","P","O","E","4"," ","a","m","y","l","o","i","d" >>
  /\ label = "Gene"

(* -------------------------------- C12 ---------------------------------- *)
\* C12: the extraction pass writes the batch file at most once and only when
\* the loop is past the last record; every run that ends has written it once,
\* with the accumulated results of all records in order, and has passed every
\* record, those given up on included.
C12_DumpOnceAfterAllRecords ==
  stage = "extract" =>
    /\ CountAll("dump") <= 1
    /\ CountAll("dump") = 1 => rec = Len(abstracts)
    /\ pc = "exited" =>
         /\ CountAll("dump") = 1
         /\ rec = Len(abstracts)
         /\ batchFile = File(all_triples)

(* -------------------------------- C13 ---------------------------------- *)
\* subject, canonical relation type and object of the entry at position p
KeyAt(p) ==
  << triples[p + 1].subject, Sanitize(triples[p + 1].relation), triples[p + 1].object >>

\* the evidence derived for position p: the corpus line at p modulo the corpus
\* length, positions counting every entry of the batch, or the placeholder
DerivedAt(p) ==
  IF corpus_lines = << >> THEN NoEvidenceText
  ELSE corpus_lines[(p % Len(corpus_lines)) + 1]

\* the evidence on the edge of the entry at position p
EdgeEvidenceAt(p) ==
  LET k == CHOOSE e \in DOMAIN store.edges :
             << store.nodes[store.edges[e].src].name, store.edges[e].type,
                store.nodes[store.edges[e].dst].name >> = KeyAt(p)
  IN  store.edges[k].evidence

First250(e) == IF Len(e) > 250 THEN SubSeq(e, 1, 250) ELSE e

\* C13 as stated: after a load run, for well-formed entries at positions i < j
\* with the same subject, canonical relation type and object, the edge carries
\* the evidence derived from position j.
C13_EvidenceOfLaterPosition ==
  LoadCompleted =>
    \A i, j \in SeenWellFormed :
       i < j /\ KeyAt(i) = KeyAt(j) => EdgeEvidenceAt(j) = DerivedAt(j)

\* C13 as amended: after a load run, for well-formed entries at positions
\* i < j with the same subject, canonical relation type and object, j the last
\* such position of the batch, the edge carries the first 250 characters of
\* the evidence derived from position j.
C13_EvidenceOfLastPosition ==
  LoadCompleted =>
    \A i, j \in SeenWellFormed :
       /\ i < j /\ KeyAt(i) = KeyAt(j)
       /\ \A m \in SeenWellFormed : KeyAt(m) = KeyAt(j) => m <= j
       => EdgeEvidenceAt(j) = First250(DerivedAt(j))

\* a completed load of a malformed entry followed by two entries of one edge,
\* against two different corpus lines: the edge carries the line of position 2,
\* which is the first line, and not the line of position 1
C13_Witness ==
  /\ LoadCompleted /\ Len(triples) = 3 /\ Len(corpus_lines) = 2
  /\ ~WellFormed(triples[1]) /\ WellFormed(triples[2]) /\ WellFormed(triples[3])
  /\ KeyAt(1) = KeyAt(2)
  /\ triples[2].relation # triples[3].relation
  /\ First250(corpus_lines[1]) # First250(corpus_lines[2])
  /\ EdgeEvidenceAt(2) = First250(corpus_lines[1])

(* -------------------------------- C14 ---------------------------------- *)
\* C14: once the session is set up, story_step is an index of stories
\* (0 .. len(stories) - 1) in every state of every script run, so both reads of
\* stories[story_step] are in range; Prev at step 0 and Next at the last step
\* leave it where it is.
C14_StoryStepInRange ==
  stage = "app" /\ pc # "open" =>
    story_step \in 0..(Len(stories) - 1)

\* Next was pressed at the last step and the run went on without moving it
C14_Witness ==
  /\ stage = "app" /\ pc = "graph"
  /\ pressed = "next"
  /\ story_step = Len(stories) - 1

====
